---- MODULE Spec2Model ----
(***************************************************************************)
(* Model of src/hw1.py: the schema-text parser (parse_schema_text), the    *)
(* referential-integrity checker (check_referential_integrity), the        *)
(* normalization checker (check_normalization), their SQL log buffers and  *)
(* the __main__ orchestration loop.                                        *)
(*                                                                         *)
(* Text is modelled at character level: a Python str is a sequence of      *)
(* one-character strings, so that strip, split, lower and the three        *)
(* regular expressions of the parser are computed, not assumed.            *)
(* An SQL statement is a sequence of string pieces (fixed fragments and     *)
(* the characters of the interpolated identifiers).                        *)
(***************************************************************************)
EXTENDS Integers, Sequences, FiniteSets, TLC

VARIABLES
  pc,                 \* position of the program / of the caller
  text,               \* the schema text given to parse_schema_text
  tables,             \* parse_schema_text: returned list of table dicts
  global_errors,      \* parse_schema_text: returned list of global errors
  parse_raised,       \* TRUE iff parse_schema_text raised
  idx,                \* __main__: index of the table the loop is at
  cursor,             \* the cursor of the last checker invocation: what was
                      \* given to cur.execute, with the row fetched
  RI_SQL_LOG_BUFFER,  \* hw1.py:163
  SQL_LOG_BUFFER,     \* hw1.py:244
  stdout,             \* lines printed by __main__
  call,               \* the last checker invocation: arguments and outcome
  checkdb_sql         \* the file checkdb.sql

vars == <<pc, text, tables, global_errors, parse_raised, idx, cursor,
          RI_SQL_LOG_BUFFER, SQL_LOG_BUFFER, stdout, call, checkdb_sql>>

---------------------------------------------------------------------------
(* Characters and the str methods the program uses.                        *)

None == <<"None">>   \* Python None (no one-character string equals "None")

Uppers == <<"A","B","C","D","E","F","G","H","I","J","K","L","M",
            "N","O","P","Q","R","S","T","U","V","W","X","Y","Z">>
Lowers == <<"a","b","c","d","e","f","g","h","i","j","k","l","m",
            "n","o","p","q","r","s","t","u","v","w","x","y","z">>
Digits == <<"0","1","2","3","4","5","6","7","8","9">>

Range(s) == {s[i] : i \in DOMAIN s}

\* the character class [A-Za-z0-9_]
IdentChars == Range(Uppers) \cup Range(Lowers) \cup Range(Digits) \cup {"_"}

IsIdent(c) == c \in IdentChars

\* the whitespace of str.strip and of \s
SpaceChars == {" ", "\t", "\n", "\r", "\f"}

IsSpace(c) == c \in SpaceChars

\* the line boundaries of str.splitlines
LineBreaks == {"\n", "\r", "\f"}

IsLineBreak(c) == c \in LineBreaks

LowerOf == [c \in Range(Uppers) |->
              Lowers[CHOOSE i \in DOMAIN Uppers : Uppers[i] = c]]

LowerChar(c) == IF c \in DOMAIN LowerOf THEN LowerOf[c] ELSE c

\* str.lower
lower(s) == [i \in DOMAIN s |-> LowerChar(s[i])]

\* s[i:j] with 1-based inclusive bounds; empty when j < i
Slice(s, i, j) == IF j < i THEN <<>> ELSE SubSeq(s, i, j)

\* the first index from i on whose character is in (is = TRUE) or not in
\* (is = FALSE) the set cs; Len(s) + 1 when there is none
RECURSIVE Find(_, _, _, _)
Find(s, i, cs, is) ==
  IF i > Len(s) \/ ((s[i] \in cs) = is) THEN i ELSE Find(s, i + 1, cs, is)

\* the last index up to i whose character is not in cs; 0 when there is none
RECURSIVE FindLastNot(_, _, _)
FindLastNot(s, i, cs) ==
  IF i < 1 \/ s[i] \notin cs THEN i ELSE FindLastNot(s, i - 1, cs)

\* str.lstrip / str.rstrip / str.strip (whitespace)
lstrip(s) == Slice(s, Find(s, 1, SpaceChars, FALSE), Len(s))

rstrip(s) == Slice(s, 1, FindLastNot(s, Len(s), SpaceChars))

strip(s) == lstrip(rstrip(s))

\* str.rstrip(";")
rstrip_semicolon(s) == Slice(s, 1, FindLastNot(s, Len(s), {";"}))

\* str.startswith
startswith(s, p) == Len(s) >= Len(p) /\ SubSeq(s, 1, Len(p)) = p

\* str.split(sep) for a one-character separator: always at least one piece
RECURSIVE split(_, _)
split(s, sep) ==
  LET i == Find(s, 1, {sep}, TRUE)
  IN  IF i > Len(s) THEN <<s>>
      ELSE <<Slice(s, 1, i - 1)>> \o split(Slice(s, i + 1, Len(s)), sep)

\* str.split(sep, 1): the text before and after the first separator
split1(s, sep) ==
  LET i == Find(s, 1, {sep}, TRUE)
  IN  IF i > Len(s) THEN <<s>>
      ELSE <<Slice(s, 1, i - 1), Slice(s, i + 1, Len(s))>>

\* str.split(None, 1): the first word and the rest, split at a whitespace run
split_ws1(s) ==
  LET t    == lstrip(s)
      i    == Find(t, 1, SpaceChars, TRUE)
      rest == lstrip(Slice(t, i, Len(t)))
  IN  IF t = <<>> THEN <<>>
      ELSE IF rest = <<>> THEN <<Slice(t, 1, i - 1)>>
      ELSE <<Slice(t, 1, i - 1), rest>>

\* str.splitlines: "\r\n" is one boundary; a final boundary opens no new line
RECURSIVE splitlines(_)
splitlines(s) ==
  LET i == Find(s, 1, LineBreaks, TRUE)
      n == IF s[i] = "\r" /\ i < Len(s) /\ s[i + 1] = "\n" THEN i + 2 ELSE i + 1
  IN  IF s = <<>> THEN <<>>
      ELSE IF i > Len(s) THEN <<s>>
      ELSE <<Slice(s, 1, i - 1)>> \o splitlines(Slice(s, n, Len(s)))

\* str(n) for a natural number
RECURSIVE Decimal(_)
Decimal(n) ==
  IF n < 10 THEN <<Digits[n + 1]>>
  ELSE Decimal(n \div 10) \o <<Digits[(n % 10) + 1]>>

\* length of the longest prefix of s made of [A-Za-z0-9_]
IdentLen(s) == Find(s, 1, IdentChars, FALSE) - 1

---------------------------------------------------------------------------
(* Role A: the schema parser, hw1.py:20-151.                               *)

Err(m, a) == [msg |-> m, args |-> a]   \* one formatted diagnostic string

NoMatch == [ok |-> FALSE, g1 |-> <<>>, g2 |-> <<>>]

\* re.match(r'^\s*([A-Za-z0-9_]+)\s*\(\s*(.*)\s*\)\s*$', line): the name is
\* the longest identifier prefix, "(" follows it, and the closing ")" is the
\* last non-blank character; group 2 runs from the first non-blank character
\* after "(" up to that ")".
MatchTableLine(line) ==
  LET s0 == lstrip(line)
      n  == IdentLen(s0)
      s1 == lstrip(Slice(s0, n + 1, Len(s0)))
      r  == rstrip(s1)
  IN  IF n = 0 \/ Len(r) < 2 \/ r[1] # "(" \/ r[Len(r)] # ")"
      THEN NoMatch
      ELSE [ok |-> TRUE, g1 |-> Slice(s0, 1, n),
            g2 |-> lstrip(Slice(r, 2, Len(r) - 1))]

\* re.match(r'^([A-Za-z0-9_]+)\s*(?:\(\s*([^)]+)\s*\))?$', part): group 2 is
\* None without an annotation; otherwise the text between "(" and the final
\* ")" (which holds no ")"), less its leading blanks, but never empty.
MatchColumnToken(part) ==
  LET n    == IdentLen(part)
      rest == lstrip(Slice(part, n + 1, Len(part)))
      c    == Slice(rest, 2, Len(rest) - 1)
  IN  IF n = 0 THEN NoMatch
      ELSE IF rest = <<>> THEN [ok |-> TRUE, g1 |-> Slice(part, 1, n), g2 |-> None]
      ELSE IF Len(rest) < 3 \/ rest[1] # "(" \/ rest[Len(rest)] # ")"
              \/ (\E i \in DOMAIN c : c[i] = ")")
      THEN NoMatch
      ELSE [ok |-> TRUE, g1 |-> Slice(part, 1, n),
            g2 |-> IF lstrip(c) = <<>> THEN <<c[Len(c)]>> ELSE lstrip(c)]

\* re.match(r'^([A-Za-z0-9_]+)\.([A-Za-z0-9_]+)$', ref)
MatchRef(ref) ==
  LET n    == IdentLen(ref)
      rest == Slice(ref, n + 2, Len(ref))
  IN  IF n = 0 \/ Len(ref) < n + 2 \/ ref[n + 1] # "."
         \/ rest = <<>> \/ IdentLen(rest) # Len(rest)
      THEN NoMatch
      ELSE [ok |-> TRUE, g1 |-> Slice(ref, 1, n), g2 |-> rest]

\* a placeholder numbered from 0 instead of from 1
PlaceholderZeroBased(lineno) ==
  [table |-> <<"l","i","n","e","_">> \o Decimal(lineno - 1), pk |-> None,
   cols |-> <<>>, fks |-> <<>>, composite |-> TRUE, skip |-> TRUE,
   errors |-> <<Err("can't parse table line", <<>>)>>]

\* hw1.py:42-50: the record kept for a line that is no table line
Placeholder(lineno) ==
  [table |-> <<"l","i","n","e","_">> \o Decimal(lineno), pk |-> None,
   cols |-> <<>>, fks |-> <<>>, composite |-> TRUE, skip |-> TRUE,
   errors |-> <<Err("can't parse table line", <<>>)>>]

\* hw1.py:57-65: the record kept for a table line with an empty body
NoColumns(tbl) ==
  [table |-> tbl, pk |-> None, cols |-> <<>>, fks |-> <<>>,
   composite |-> TRUE, skip |-> TRUE,
   errors |-> <<Err("no columns found", <<>>)>>]

\* hw1.py:68: parts = [p.strip() for p in inside.split(',') if p.strip()]
Parts(inside) ==
  LET ps == split(inside, ",")
      st == [i \in DOMAIN ps |-> strip(ps[i])]
  IN  SelectSeq(st, LAMBDA p : p # <<>>)

\* hw1.py:69-73: the accumulators of one table line
EmptyAcc ==
  [cols |-> <<>>, fks |-> <<>>, pk_candidates |-> <<>>, errors |-> <<>>,
   seen |-> {}, raised |-> FALSE]

\* a column recorded only the first time its name is seen
AddColumnOnce(acc, col) ==
  [acc EXCEPT
     !.errors = IF col \in acc.seen
                THEN Append(@, Err("duplicate column", <<col>>)) ELSE @,
     !.seen   = @ \cup {col},
     !.cols   = IF col \in acc.seen THEN @ ELSE Append(@, col)]

\* hw1.py:83-86: record the column, reporting a name seen before
AddColumn(acc, col) ==
  [acc EXCEPT
     !.errors = IF col \in acc.seen
                THEN Append(@, Err("duplicate column", <<col>>)) ELSE @,
     !.seen   = @ \cup {col},
     !.cols   = Append(@, col)]

\* hw1.py:97-100: the reference text of an fk annotation; <<FALSE, _>> when
\* the index [1] is out of range (IndexError)
FkRef(ann_clean) ==
  LET ps == IF \E i \in DOMAIN ann_clean : ann_clean[i] = ":"
            THEN split1(ann_clean, ":") ELSE split_ws1(ann_clean)
  IN  IF Len(ps) < 2 THEN <<FALSE, <<>>>> ELSE <<TRUE, strip(ps[2])>>

\* hw1.py:94-112: an fk annotation on column col
AddFk(acc, col, ann_clean) ==
  LET r  == FkRef(ann_clean)
      rm == MatchRef(r[2])
  IN  IF ~r[1] THEN [acc EXCEPT !.raised = TRUE]
      ELSE IF ~rm.ok
      THEN [acc EXCEPT
              !.errors = Append(@, Err("bad FK reference", <<r[2], col>>)),
              !.fks = Append(@, [col |-> col, ref_table |-> None, ref_pk |-> None])]
      ELSE [acc EXCEPT
              !.fks = Append(@, [col |-> col, ref_table |-> lower(rm.g1),
                                 ref_pk |-> lower(rm.g2)])]

\* hw1.py:88-114: the annotation of column col, if any
Annotate(acc, col, ann) ==
  LET ann_clean == lower(strip(ann))
  IN  IF ann = None \/ ann = <<>> THEN acc
      ELSE IF ann_clean = <<"p","k">>
      THEN [acc EXCEPT !.pk_candidates = Append(@, col)]
      ELSE IF startswith(ann_clean, <<"f","k",":">>)
              \/ startswith(ann_clean, <<"f","k"," ">>)
      THEN AddFk(acc, col, ann_clean)
      ELSE [acc EXCEPT
              !.errors = Append(@, Err("unknown annotation", <<ann_clean, col>>))]

\* hw1.py:75-114: one iteration of "for part in parts"
ColumnToken(acc, part) ==
  LET mc == MatchColumnToken(part)
  IN  IF acc.raised THEN acc
      ELSE IF ~mc.ok
      THEN [acc EXCEPT !.errors = Append(@, Err("can't parse column token", <<part>>))]
      ELSE Annotate(AddColumn(acc, lower(mc.g1)), lower(mc.g1), mc.g2)

RECURSIVE ColumnTokens(_, _)
ColumnTokens(acc, parts) ==
  IF parts = <<>> THEN acc
  ELSE ColumnTokens(ColumnToken(acc, Head(parts)), Tail(parts))

\* the foreign-key cap, hw1.py:117
FkCap == 3

\* the cap applied from the third foreign key on
CapFksFromThird(acc) ==
  IF Len(acc.fks) >= FkCap
  THEN [acc EXCEPT
          !.errors = Append(@, Err("more than 3 FKs found; only first 3 kept", <<>>)),
          !.fks = SubSeq(@, 1, FkCap)]
  ELSE acc

\* hw1.py:116-119: enforce up to 3 FKs
CapFks(acc) ==
  IF Len(acc.fks) > FkCap
  THEN [acc EXCEPT
          !.errors = Append(@, Err("more than 3 FKs found; only first 3 kept", <<>>)),
          !.fks = SubSeq(@, 1, FkCap)]
  ELSE acc

\* the first candidate taken as the key whenever there is one
ResolvePkFirst(pk_candidates) ==
  IF Len(pk_candidates) >= 1
  THEN [pk |-> pk_candidates[1], composite |-> FALSE]
  ELSE [pk |-> None, composite |-> TRUE]

\* hw1.py:121-129: exactly one candidate is the key; otherwise composite
ResolvePk(pk_candidates) ==
  IF Len(pk_candidates) = 1
  THEN [pk |-> pk_candidates[1], composite |-> FALSE]
  ELSE [pk |-> None, composite |-> TRUE]

\* hw1.py:133-135: a key that is not among the columns is reported
PkErrors(pk, cols, errors) ==
  IF pk # None /\ pk # <<>> /\ pk \notin Range(cols)
  THEN Append(errors, Err("pk not found in cols", <<>>)) ELSE errors

\* hw1.py:132-139: skip = True for a key that is not among the columns, for
\* no key, and for no column
DecideSkip(pk, cols) ==
  \/ (pk # None /\ pk # <<>> /\ pk \notin Range(cols))
  \/ pk = None
  \/ cols = <<>>

\* hw1.py:141-149: the dict appended for the table line
TableRecord(tbl, acc, key) ==
  [raised |-> acc.raised,
   dict |-> [table |-> tbl, pk |-> key.pk, cols |-> acc.cols,
             fks |-> acc.fks, composite |-> key.composite,
             skip |-> DecideSkip(key.pk, acc.cols),
             errors |-> PkErrors(key.pk, acc.cols, acc.errors)]]

\* hw1.py:121-149: the key, then skip, of the accumulated table line
TableOf(tbl, acc) == TableRecord(tbl, acc, ResolvePk(acc.pk_candidates))

\* hw1.py:68-149: the dict of a table line with a non-empty body
TableDict(tbl, inside) ==
  TableOf(tbl, CapFks(ColumnTokens(EmptyAcc, Parts(inside))))

EmptyParse == [tables |-> <<>>, global_errors |-> <<>>, raised |-> FALSE]

\* hw1.py:141-149: tables.append, unless the line raised
AppendTable(res, td) ==
  IF td.raised THEN [res EXCEPT !.raised = TRUE]
  ELSE [res EXCEPT !.tables = Append(@, td.dict)]

\* hw1.py:53-149: a line that has the form of a table line
ParseTable(res, tbl, inside) ==
  IF inside = <<>>
  THEN [res EXCEPT !.tables = Append(@, NoColumns(tbl))]
  ELSE AppendTable(res, TableDict(tbl, inside))

\* hw1.py:38-51: the table-line pattern tried on the stripped line
ParseMatched(res, raw, lineno, m) ==
  IF ~m.ok
  THEN [res EXCEPT
          !.global_errors = Append(@, Err("can't parse table line", <<Decimal(lineno), raw>>)),
          !.tables = Append(@, Placeholder(lineno))]
  ELSE ParseTable(res, lower(m.g1), strip(m.g2))

\* hw1.py:31-38: blank lines and comments are passed over
ParseStripped(res, raw, lineno, line) ==
  IF line = <<>> THEN res
  ELSE IF startswith(line, <<"-","-">>) \/ startswith(line, <<"#">>) THEN res
  ELSE ParseMatched(res, raw, lineno, MatchTableLine(line))

\* hw1.py:29-149: one iteration of "for raw in text.splitlines()"
ParseLine(res, raw, lineno) ==
  IF res.raised THEN res ELSE ParseStripped(res, raw, lineno, strip(raw))

RECURSIVE ParseLines(_, _, _)
ParseLines(res, lines, lineno) ==
  IF lineno > Len(lines) THEN res
  ELSE ParseLines(ParseLine(res, lines[lineno], lineno), lines, lineno + 1)

\* hw1.py:20-151
parse_schema_text(txt) == ParseLines(EmptyParse, splitlines(txt), 1)

---------------------------------------------------------------------------
(* Bounded schema texts.                                                   *)

MaxTokens == 4   \* column tokens on a generated table line
MaxLines == 3    \* lines of a generated multi-line text

\* column tokens: plain, pk, pk in upper case with blanks, fk with ":",
\* fk with a blank, fk with a bad reference
Tokens ==
  { <<"a">>,
    <<"a","(","p","k",")">>,
    <<"B"," ","("," ","P","K"," ",")">>,
    <<"c","(","f","k",":","t",".","a",")">>,
    <<"d","(","F","K"," ","T",".","a",")">>,
    <<"c","(","f","k",":","t",")">> }

SeqsUpTo(S, n) == UNION {[1..k -> S] : k \in 0..n}

RECURSIVE Join(_, _)
Join(ss, sep) ==
  IF ss = <<>> THEN <<>>
  ELSE IF Len(ss) = 1 THEN ss[1]
  ELSE ss[1] \o sep \o Join(Tail(ss), sep)

TableLine(toks) == <<"T","(">> \o Join(toks, <<",">>) \o <<")">>

\* whole lines: blank, two comments, no table line, empty body, a table
\* with blanks around everything, a table with an fk, an unknown annotation
\* and an unparsable token
Lines ==
  { <<" ","\t">>,
    <<"#"," ","c">>,
    <<" ","-","-","t","(","a",")">>,
    <<"t","(","a">>,
    <<"t","("," ",")">>,
    <<" ","U"," ","("," ","a","(","p","k",")",","," ","b"," ",")"," ">>,
    <<"v","(","a","(","p","k",")",",","c","(","f","k",":","t",".","a",")",
      ",","b","(","x",")",",","a"," ","b",")">> }

Texts ==
  { TableLine(toks) : toks \in SeqsUpTo(Tokens, MaxTokens) }
  \cup { Join(ls, <<"\n">>) : ls \in SeqsUpTo(Lines, MaxLines) }
  \cup { Join(ls, <<"\r","\n">>) \o <<"\n">> : ls \in SeqsUpTo(Lines, 2) }

---------------------------------------------------------------------------
(* The parser applied to one text.                                         *)

NoCall == [fn |-> "none"]

NoFile == [exists |-> FALSE, parts |-> <<>>]   \* checkdb.sql does not exist

InitParse ==
  /\ pc = "start"
  /\ text \in Texts
  /\ tables = <<>>
  /\ global_errors = <<>>
  /\ parse_raised = FALSE
  /\ idx = 0
  /\ cursor = <<>>
  /\ RI_SQL_LOG_BUFFER = <<>>
  /\ SQL_LOG_BUFFER = <<>>
  /\ stdout = <<>>
  /\ call = NoCall
  /\ checkdb_sql = NoFile

\* hw1.py:151: return tables, global_errors (or the exception)
Returned(res, onError, onReturn) ==
  /\ tables' = res.tables
  /\ global_errors' = res.global_errors
  /\ parse_raised' = res.raised
  /\ pc' = IF res.raised THEN onError ELSE onReturn

\* hw1.py:154-157 read_schema_file / hw1.py:20 parse_schema_text
Parse ==
  /\ pc = "start"
  /\ Returned(parse_schema_text(text), "raised", "parsed")
  /\ UNCHANGED <<text, idx, cursor, RI_SQL_LOG_BUFFER, SQL_LOG_BUFFER,
                 stdout, call, checkdb_sql>>

NextParse == Parse

SpecParse == InitParse /\ [][NextParse]_vars

---------------------------------------------------------------------------
(* The query interface: a cursor on the store.  Each statement a checker   *)
(* gives to cur.execute is recorded with the row cur.fetchone returned.   *)
(* An execute may fail (connectivity, unknown identifier): it then raises, *)
(* and no checker catches it.                                              *)

\* cur.execute(sql) and the row fetched after it, as the fail-th statement of
\* the invocation raising when fail is its ordinal
Execute(st, sql, row, fail) ==
  IF Len(st.issued) + 1 = fail
  THEN [st EXCEPT !.issued = Append(@, [sql |-> sql, row |-> <<>>, failed |-> TRUE]),
                  !.raised = TRUE]
  ELSE [st EXCEPT !.issued = Append(@, [sql |-> sql, row |-> row, failed |-> FALSE])]

NULL == "NULL"

\* COUNT(*)
CountRows(rows) == Len(rows)

\* COUNT(DISTINCT x): NULLs are not counted
CountDistinct(rows, x) ==
  Cardinality({rows[i][x] : i \in DOMAIN rows} \ {NULL})

\* COUNT(DISTINCT (x, y)): a row value is counted even when its fields are NULL
CountDistinctPair(rows, x, y) ==
  Cardinality({<<rows[i][x], rows[i][y]>> : i \in DOMAIN rows})

---------------------------------------------------------------------------
(* Role B: the referential-integrity checker, hw1.py:162-239.              *)

\* sql.strip().rstrip(";") + ";\n" with the ";" left as the statement has it
LogSqlKeepSemicolons(sql) == strip(sql) \o <<";", "\n">>

\* hw1.py:165-166 log_ri_sql: the entry appended to RI_SQL_LOG_BUFFER
log_ri_sql(sql) == rstrip_semicolon(strip(sql)) \o <<";", "\n">>

\* hw1.py:203
SetSearchPath == <<"SET search_path TO public", ";">>

\* hw1.py:216-221
q_viol(table_name, col, rt, rp) ==
  <<"SELECT COUNT(*) AS fk_violations FROM public.">> \o table_name
  \o <<" child LEFT JOIN public.">> \o rt \o <<" parent ON child.">> \o col
  \o <<" = parent.">> \o rp \o <<" WHERE child.">> \o col
  \o <<" IS NOT NULL AND parent.">> \o rp \o <<" IS NULL">>

\* hw1.py:227
q_count_all(table_name) == <<"SELECT COUNT(*) FROM public.">> \o table_name

\* hw1.py:228-231
q_count_join(table_name, col, rt, rp) ==
  <<"SELECT COUNT(*) FROM public.">> \o table_name \o <<" c JOIN public.">> \o rt
  \o <<" p ON c.">> \o col \o <<" = p.">> \o rp

\* Python truth of a str-or-None value: None and "" are false
Falsy(v) == v = None \/ v = <<>>

\* the checker starting with all_ok = False
RiStartNotOk(fail) ==
  Execute([issued |-> <<>>, log |-> <<>>, all_ok |-> FALSE, raised |-> FALSE],
          SetSearchPath, <<>>, fail)

\* hw1.py:202-205: the cursor, the SET statement, all_ok = True
RiStart(fail) ==
  Execute([issued |-> <<>>, log |-> <<>>, all_ok |-> TRUE, raised |-> FALSE],
          SetSearchPath, <<>>, fail)

\* hw1.py:222-224, 232, 233: execute, fetch, then log
ExecuteAndLogRi(st, sql, row, fail) ==
  LET e == Execute(st, sql, row, fail)
  IN  IF st.raised THEN st
      ELSE IF e.raised THEN e
      ELSE [e EXCEPT !.log = Append(@, log_ri_sql(sql))]

\* a foreign key passing when the two supporting counts agree
FkPassesByCounts(ans) == ans[3] = ans[2]

\* hw1.py:236-237: a foreign key passes iff the orphan count is 0
FkPasses(ans) == ans[1] = 0

\* hw1.py:206-237: one iteration of "for fk in fks"; ans is what the store
\* answers: <<violations, cnt_all, cnt_join>>
RiForeignKey(st, table_name, fk, ans, fail) ==
  LET s1 == ExecuteAndLogRi(st, q_viol(table_name, fk.col, fk.ref_table, fk.ref_pk),
                            <<ans[1]>>, fail)
      s2 == ExecuteAndLogRi(s1, q_count_all(table_name), <<ans[2]>>, fail)
      s3 == ExecuteAndLogRi(s2, q_count_join(table_name, fk.col, fk.ref_table, fk.ref_pk),
                            <<ans[3]>>, fail)
  IN  IF st.raised THEN st
      ELSE IF Falsy(fk.col) \/ Falsy(fk.ref_table) \/ Falsy(fk.ref_pk)
      THEN [st EXCEPT !.all_ok = FALSE]
      ELSE IF s3.raised THEN s3
      ELSE [s3 EXCEPT !.all_ok = @ /\ FkPasses(ans)]

RECURSIVE RiForeignKeys(_, _, _, _, _, _)
RiForeignKeys(st, table_name, fks, answers, fail, i) ==
  IF i > Len(fks) THEN st
  ELSE RiForeignKeys(RiForeignKey(st, table_name, fks[i], answers[i], fail),
                     table_name, fks, answers, fail, i + 1)

\* hw1.py:200-239
check_referential_integrity(table_name, fks, answers, fail) ==
  LET st == RiForeignKeys(RiStart(fail), table_name, fks, answers, fail, 1)
  IN  [issued |-> st.issued, log |-> st.log, raised |-> st.raised,
       result |-> IF st.raised THEN "raised" ELSE IF st.all_ok THEN "Y" ELSE "N"]

---------------------------------------------------------------------------
(* Role C: the normalization checker, hw1.py:243-314.                      *)

\* hw1.py:246-247 log_norm_sql: the entry appended to SQL_LOG_BUFFER
log_norm_sql(sql) == rstrip_semicolon(strip(sql)) \o <<";", "\n">>

\* hw1.py:285-288 run_and_log: execute, log, fetch
run_and_log(st, sql, row, fail) ==
  LET e == Execute(st, sql, row, fail)
  IN  IF e.raised THEN e
      ELSE [e EXCEPT !.log = Append(@, log_norm_sql(sql))]

\* hw1.py:297
q_count(table_name, x) ==
  <<"SELECT COUNT(*), COUNT(DISTINCT ">> \o x \o <<") FROM ">> \o table_name \o <<";">>

\* hw1.py:306
q_pair(table_name, x, y) ==
  <<"SELECT COUNT(DISTINCT (">> \o x \o <<",">> \o y \o <<")), COUNT(DISTINCT ">>
  \o x \o <<") FROM ">> \o table_name \o <<";">>

\* the columns scanned from the last to the first
NonPkReversed(pk, cols) ==
  LET np == SelectSeq(cols, LAMBDA c : c # pk)
  IN  [i \in DOMAIN np |-> np[Len(np) + 1 - i]]

\* hw1.py:293: non_pk = [c for c in cols if c != pk]
NonPk(pk, cols) == SelectSeq(cols, LAMBDA c : c # pk)

\* every column taken as repeating
RepeatsAlways(n, dx) == TRUE

\* hw1.py:298-299: X is probed only if its distinct count differs from COUNT(*)
Repeats(n, dx) == dx # n

\* the scan never stopped
StopScanNever(st) == FALSE

\* hw1.py:311-312: if not ok: break
StopScan(st) == ~st.ok

\* hw1.py:302-310: "for y in non_pk" from its j-th element on
RECURSIVE NormProbes(_, _, _, _, _, _, _)
NormProbes(st, table_name, non_pk, x, rows, fail, j) ==
  LET y == non_pk[j]
      e == run_and_log(st, q_pair(table_name, x, y),
                       <<CountDistinctPair(rows, x, y), CountDistinct(rows, x)>>, fail)
  IN  IF j > Len(non_pk) THEN st
      ELSE IF y = x THEN NormProbes(st, table_name, non_pk, x, rows, fail, j + 1)
      ELSE IF e.raised THEN e
      ELSE IF e.issued[Len(e.issued)].row[1] = e.issued[Len(e.issued)].row[2]
      THEN [e EXCEPT !.ok = FALSE]
      ELSE NormProbes(e, table_name, non_pk, x, rows, fail, j + 1)

\* hw1.py:295-312: "for x in non_pk" from its i-th element on
RECURSIVE NormScan(_, _, _, _, _, _)
NormScan(st, table_name, non_pk, rows, fail, i) ==
  LET x  == non_pk[i]
      e  == run_and_log(st, q_count(table_name, x),
                        <<CountRows(rows), CountDistinct(rows, x)>>, fail)
      pr == NormProbes(e, table_name, non_pk, x, rows, fail, 1)
  IN  IF i > Len(non_pk) THEN st
      ELSE IF e.raised THEN e
      ELSE IF ~Repeats(e.issued[Len(e.issued)].row[1], e.issued[Len(e.issued)].row[2])
      THEN NormScan(e, table_name, non_pk, rows, fail, i + 1)
      ELSE IF pr.raised \/ StopScan(pr) THEN pr
      ELSE NormScan(pr, table_name, non_pk, rows, fail, i + 1)

\* hw1.py:290-314; rows is the content of the table in the store
check_normalization(table_name, pk, cols, rows, fail) ==
  LET st == NormScan([issued |-> <<>>, log |-> <<>>, ok |-> TRUE, raised |-> FALSE],
                     table_name, NonPk(pk, cols), rows, fail, 1)
  IN  [issued |-> st.issued, log |-> st.log, raised |-> st.raised,
       result |-> IF st.raised THEN "raised" ELSE IF st.ok THEN "Y" ELSE "N"]

---------------------------------------------------------------------------
(* The two checkers called directly, on bounded arguments and stores.      *)

MaxFks == 3     \* foreign keys in a list given to the RI checker
MaxRows == 2    \* rows of the table given to the normalization checker
MaxFail == 2    \* the ordinal of the statement whose execute raises, if any

FailPoints == 0..MaxFail   \* 0: no execute raises

TableName == <<"t">>

\* two well-formed triplets, the parser's triplet for a bad reference, and a
\* triplet without its column
FkPool ==
  { [col |-> <<"c">>, ref_table |-> <<"t">>, ref_pk |-> <<"a">>],
    [col |-> <<"d">>, ref_table |-> <<"u">>, ref_pk |-> <<"b">>],
    [col |-> <<"c">>, ref_table |-> None, ref_pk |-> None],
    [col |-> None, ref_table |-> <<"t">>, ref_pk |-> <<"a">>] }

\* what the store answers for one foreign key: orphan count, child rows,
\* joined rows
Answers == { <<0, 2, 2>>, <<0, 2, 1>>, <<1, 2, 1>> }

NoAnswer == <<0, 0, 0>>   \* for a triplet that is never queried

Queried(fk) == ~Falsy(fk.col) /\ ~Falsy(fk.ref_table) /\ ~Falsy(fk.ref_pk)

AnswersFor(fks) ==
  {an \in [DOMAIN fks -> Answers \cup {NoAnswer}] :
     \A i \in DOMAIN fks : (an[i] = NoAnswer) <=> ~Queried(fks[i])}

\* the arguments pk, cols given to the normalization checker
NormArgs ==
  { [pk |-> <<"a">>, cols |-> <<>>],
    [pk |-> <<"a">>, cols |-> << <<"a">> >>],
    [pk |-> <<"a">>, cols |-> << <<"a">>, <<"b">> >>],
    [pk |-> <<"a">>, cols |-> << <<"a">>, <<"b">>, <<"c">> >>],
    [pk |-> <<"a">>, cols |-> << <<"b">>, <<"c">>, <<"a">>, <<"d">> >>],
    [pk |-> <<"a">>, cols |-> << <<"a">>, <<"b">>, <<"b">>, <<"c">> >>],
    [pk |-> None, cols |-> << <<"c">>, <<"b">> >>] }

Values == {NULL, "1", "2"}

\* an order on rows, to take each bag of rows once
ValueCode(v) == CASE v = NULL -> 0 [] v = "1" -> 1 [] v = "2" -> 2

RECURSIVE RowCode(_, _)
RowCode(row, names) ==
  IF names = {} THEN 0
  ELSE LET n == CHOOSE m \in names : TRUE
       IN  ValueCode(row[n]) + 3 * RowCode(row, names \ {n})

\* the contents a table with the columns `names` may have
Stores(names) ==
  {rows \in SeqsUpTo([names -> Values], MaxRows) :
     \A i \in 1..(Len(rows) - 1) : RowCode(rows[i], names) <= RowCode(rows[i + 1], names)}

\* log entries left in a buffer by earlier invocations
EarlierLog == {<<>>, <<log_norm_sql(q_count(TableName, <<"b">>))>>}

InitCheck ==
  /\ pc = "idle"
  /\ text = <<>>
  /\ tables = <<>>
  /\ global_errors = <<>>
  /\ parse_raised = FALSE
  /\ idx = 0
  /\ cursor = <<>>
  /\ RI_SQL_LOG_BUFFER \in EarlierLog
  /\ SQL_LOG_BUFFER = RI_SQL_LOG_BUFFER
  /\ stdout = <<>>
  /\ call = NoCall
  /\ checkdb_sql = NoFile

\* a caller invokes check_referential_integrity(conn, table_name, fks)
CallRI ==
  /\ pc = "idle"
  /\ \E fks \in SeqsUpTo(FkPool, MaxFks), fail \in FailPoints :
       \E answers \in AnswersFor(fks) :
         LET r == check_referential_integrity(TableName, fks, answers, fail)
         IN  /\ cursor' = r.issued
             /\ RI_SQL_LOG_BUFFER' = RI_SQL_LOG_BUFFER \o r.log
             /\ call' = [fn |-> "ri", table_name |-> TableName, fks |-> fks,
                         answers |-> answers, pk |-> None, cols |-> <<>>,
                         rows |-> <<>>, idx |-> 0,
                         log0 |-> Len(RI_SQL_LOG_BUFFER),
                         result |-> r.result, raised |-> r.raised]
             /\ pc' = IF r.raised THEN "raised" ELSE "returned"
  /\ UNCHANGED <<text, tables, global_errors, parse_raised, idx, SQL_LOG_BUFFER,
                 stdout, checkdb_sql>>

\* a caller invokes check_normalization(conn, table_name, pk, cols)
CallNorm ==
  /\ pc = "idle"
  /\ \E a \in NormArgs, fail \in FailPoints :
       \E rows \in Stores(Range(a.cols) \ {a.pk}) :
         LET r == check_normalization(TableName, a.pk, a.cols, rows, fail)
         IN  /\ cursor' = r.issued
             /\ SQL_LOG_BUFFER' = SQL_LOG_BUFFER \o r.log
             /\ call' = [fn |-> "norm", table_name |-> TableName, fks |-> <<>>,
                         answers |-> <<>>, pk |-> a.pk, cols |-> a.cols,
                         rows |-> rows, idx |-> 0,
                         log0 |-> Len(SQL_LOG_BUFFER),
                         result |-> r.result, raised |-> r.raised]
             /\ pc' = IF r.raised THEN "raised" ELSE "returned"
  /\ UNCHANGED <<text, tables, global_errors, parse_raised, idx, RI_SQL_LOG_BUFFER,
                 stdout, checkdb_sql>>

NextCheck == CallRI \/ CallNorm

SpecCheck == InitCheck /\ [][NextCheck]_vars

---------------------------------------------------------------------------
(* The log flushes, hw1.py:168-197 and 249-283, and __main__, 318-345.     *)

Part(k, r, e) == [kind |-> k, role |-> r, entries |-> e]

\* hw1.py:178-187: the skeleton flush_ri_sql_to_checkdb writes
SkeletonB ==
  <<Part("text", "head", <<>>), Part("text", "A", <<>>), Part("text", "B", <<>>),
    Part("anchor", "B", <<>>), Part("text", "C", <<>>), Part("anchor", "C", <<>>),
    Part("text", "D", <<>>)>>

\* hw1.py:262-270: the skeleton flush_norm_sql_to_checkdb writes (no anchor
\* in the Role B section)
SkeletonC ==
  <<Part("text", "head", <<>>), Part("text", "A", <<>>), Part("text", "B", <<>>),
    Part("text", "C", <<>>), Part("anchor", "C", <<>>), Part("text", "D", <<>>)>>

\* hw1.py:168-197, 249-283: the block of the buffer goes right after the
\* role's anchor, or at the end of a file without it; an empty buffer
\* leaves the file alone
Flush(file, role, skeleton, buffer) ==
  LET parts == IF file.exists THEN file.parts ELSE skeleton
      at    == {i \in DOMAIN parts : parts[i] = Part("anchor", role, <<>>)}
      i     == CHOOSE k \in at : \A j \in at : k <= j
      block == Part("block", role, buffer)
  IN  IF buffer = <<>> THEN file
      ELSE [exists |-> TRUE,
            parts |-> IF at = {} THEN Append(parts, block)
                      ELSE SubSeq(parts, 1, i) \o <<block>>
                           \o SubSeq(parts, i + 1, Len(parts))]

MaxRunLines == 3   \* lines of the schema file of a run

\* a line that is no table line, a table without foreign keys, and a table
\* with a foreign key, an unknown annotation and an unparsable token
RunLines ==
  { <<"t","(","a">>,
    <<" ","U"," ","("," ","a","(","p","k",")",","," ","b"," ",")"," ">>,
    <<"v","(","a","(","p","k",")",",","c","(","f","k",":","t",".","a",")",
      ",","b","(","x",")",",","a"," ","b",")">> }

RunTexts == { Join(ls, <<"\n">>) : ls \in SeqsUpTo(RunLines, MaxRunLines) }

\* every descriptor the parser returns for some text of RunTexts
RunTables == UNION {Range(parse_schema_text(t).tables) : t \in RunTexts}

\* hw1.py:337: what check_normalization may do on table t, over the contents
\* the store may hold for t and the statements that may fail
NormOutcomes ==
  [t \in RunTables |->
     {check_normalization(t.table, t.pk, t.cols, rows, fail) :
        rows \in Stores(Range(t.cols) \ {t.pk}), fail \in FailPoints}]

Init ==
  /\ pc = "start"
  /\ text \in RunTexts
  /\ tables = <<>>
  /\ global_errors = <<>>
  /\ parse_raised = FALSE
  /\ idx = 0
  /\ cursor = <<>>
  /\ RI_SQL_LOG_BUFFER = <<>>
  /\ SQL_LOG_BUFFER = <<>>
  /\ stdout = <<>>
  /\ call = NoCall
  /\ checkdb_sql = NoFile

\* hw1.py:321: tables, _ = read_schema_file(schema_file)
ReadSchema ==
  /\ pc = "start"
  /\ Returned(parse_schema_text(text), "aborted", "ri")
  /\ idx' = 1
  /\ UNCHANGED <<text, cursor, RI_SQL_LOG_BUFFER, SQL_LOG_BUFFER, stdout, call,
                 checkdb_sql>>

\* no table passed over
SkippedNever(t) == FALSE

\* hw1.py:328: if t["skip"]: continue
Skipped(t) == t.skip

SkipTable ==
  /\ pc = "ri" /\ idx <= Len(tables)
  /\ Skipped(tables[idx])
  /\ idx' = idx + 1
  /\ UNCHANGED <<pc, text, tables, global_errors, parse_raised, cursor,
                 RI_SQL_LOG_BUFFER, SQL_LOG_BUFFER, stdout, call, checkdb_sql>>

\* hw1.py:332-334: the RI check of a table with foreign keys, and its line
RunRI ==
  /\ pc = "ri" /\ idx <= Len(tables)
  /\ ~Skipped(tables[idx])
  /\ tables[idx].fks # <<>>
  /\ LET t == tables[idx]
     IN  \E fail \in FailPoints : \E answers \in AnswersFor(t.fks) :
           LET r == check_referential_integrity(t.table, t.fks, answers, fail)
           IN  /\ cursor' = r.issued
               /\ RI_SQL_LOG_BUFFER' = RI_SQL_LOG_BUFFER \o r.log
               /\ call' = [fn |-> "ri", table_name |-> t.table, fks |-> t.fks,
                           answers |-> answers, pk |-> None, cols |-> <<>>,
                           rows |-> <<>>, idx |-> idx,
                           log0 |-> Len(RI_SQL_LOG_BUFFER),
                           result |-> r.result, raised |-> r.raised]
               /\ stdout' = IF r.raised THEN stdout
                            ELSE Append(stdout, [table |-> t.table, kind |-> "RI",
                                                 verdict |-> r.result])
               /\ pc' = IF r.raised THEN "aborted" ELSE "norm"
  /\ UNCHANGED <<text, tables, global_errors, parse_raised, idx, SQL_LOG_BUFFER,
                 checkdb_sql>>

\* hw1.py:332: a table without foreign keys gets no RI check
NoRI ==
  /\ pc = "ri" /\ idx <= Len(tables)
  /\ ~Skipped(tables[idx])
  /\ tables[idx].fks = <<>>
  /\ pc' = "norm"
  /\ UNCHANGED <<text, tables, global_errors, parse_raised, idx, cursor,
                 RI_SQL_LOG_BUFFER, SQL_LOG_BUFFER, stdout, call, checkdb_sql>>

\* hw1.py:337-338: the normalization check of the table, and its line
RunNorm ==
  /\ pc = "norm"
  /\ LET t == tables[idx]
     IN  \E r \in NormOutcomes[t] :
           /\ cursor' = r.issued
           /\ SQL_LOG_BUFFER' = SQL_LOG_BUFFER \o r.log
           /\ call' = [fn |-> "norm", table_name |-> t.table, fks |-> <<>>,
                       answers |-> <<>>, pk |-> t.pk, cols |-> t.cols,
                       rows |-> <<>>, idx |-> idx,
                       log0 |-> Len(SQL_LOG_BUFFER),
                       result |-> r.result, raised |-> r.raised]
           /\ stdout' = IF r.raised THEN stdout
                        ELSE Append(stdout, [table |-> t.table,
                                             kind |-> "normalized",
                                             verdict |-> r.result])
           /\ pc' = IF r.raised THEN "aborted" ELSE "ri"
  /\ idx' = idx + 1
  /\ UNCHANGED <<text, tables, global_errors, parse_raised, RI_SQL_LOG_BUFFER,
                 checkdb_sql>>

\* hw1.py:341-345: both buffers flushed into checkdb.sql, connection closed
FlushAndClose ==
  /\ pc = "ri" /\ idx > Len(tables)
  /\ checkdb_sql' = Flush(Flush(checkdb_sql, "B", SkeletonB, RI_SQL_LOG_BUFFER),
                          "C", SkeletonC, SQL_LOG_BUFFER)
  /\ RI_SQL_LOG_BUFFER' = <<>>
  /\ SQL_LOG_BUFFER' = <<>>
  /\ pc' = "done"
  /\ UNCHANGED <<text, tables, global_errors, parse_raised, idx, cursor, stdout,
                 call>>

Next == ReadSchema \/ SkipTable \/ RunRI \/ NoRI \/ RunNorm \/ FlushAndClose

Spec == Init /\ [][Next]_vars

---------------------------------------------------------------------------
(* Properties of the parser, stated on the text and on what it returned.   *)

TextLines == splitlines(text)

\* a line that is neither blank nor a comment
IsContent(l) ==
  /\ strip(l) # <<>>
  /\ ~startswith(strip(l), <<"-","-">>)
  /\ ~startswith(strip(l), <<"#">>)

\* the numbers of the non-blank, non-comment lines, in order
ContentNos ==
  SelectSeq([i \in 1..Len(TextLines) |-> i], LAMBDA i : IsContent(TextLines[i]))

\* the line has the NAME(BODY) form
IsTableLine(l) == MatchTableLine(strip(l)).ok

\* the column tokens of a table line
TokensOf(l) == Parts(strip(MatchTableLine(strip(l)).g2))

\* the annotation of a column token, cleaned; None when it has none
AnnotationOf(tok) ==
  LET mc == MatchColumnToken(tok)
  IN  IF ~mc.ok \/ mc.g2 = None THEN None ELSE lower(strip(mc.g2))

ColumnOf(tok) == lower(MatchColumnToken(tok).g1)

HasPk(tok) == AnnotationOf(tok) = <<"p","k">>

HasFk(tok) ==
  \/ startswith(AnnotationOf(tok), <<"f","k",":">>)
  \/ startswith(AnnotationOf(tok), <<"f","k"," ">>)

ExcessMsg == Err("more than 3 FKs found; only first 3 kept", <<>>)

Count(seq, x) == Cardinality({i \in DOMAIN seq : seq[i] = x})

\* C1: parse_schema_text returns without raising; it returns at least as
\* many descriptors as the text has non-blank, non-comment lines; and a line
\* that has not the NAME(BODY) form gives, at its place, a placeholder named
\* line_<line number> with skip = TRUE, and one global error.
C1_EveryLineKept ==
  pc # "start" =>
    /\ pc = "parsed" /\ ~parse_raised
    /\ Len(tables) >= Len(ContentNos)
    /\ \A k \in DOMAIN ContentNos :
         ~IsTableLine(TextLines[ContentNos[k]]) =>
           /\ tables[k].table = <<"l","i","n","e","_">> \o Decimal(ContentNos[k])
           /\ tables[k].skip
    /\ Len(global_errors)
         = Cardinality({k \in DOMAIN ContentNos : ~IsTableLine(TextLines[ContentNos[k]])})

\* a parsed text of three lines: a blank or comment line, a table line, and
\* a last line that is no table line
C1_Witness ==
  /\ pc = "parsed"
  /\ Len(TextLines) = 3
  /\ Len(tables) = 2
  /\ Len(global_errors) = 1
  /\ ~IsContent(TextLines[1])
  /\ ~tables[1].skip
  /\ tables[2].table = <<"l","i","n","e","_","3">>

\* C2: exactly one pk-annotated column token gives pk = that column,
\* composite = FALSE, skip = FALSE; none or several give pk = None,
\* composite = TRUE, skip = TRUE; and in every descriptor skip is TRUE
\* exactly when pk is None, cols is empty or pk is not in cols.
C2_PrimaryKey ==
  pc = "parsed" =>
    /\ \A k \in DOMAIN ContentNos :
         LET l   == TextLines[ContentNos[k]]
             pks == SelectSeq(TokensOf(l), HasPk)
             d   == tables[k]
         IN  IsTableLine(l) =>
               /\ Len(pks) = 1 =>
                    d.pk = ColumnOf(pks[1]) /\ ~d.composite /\ ~d.skip
               /\ Len(pks) # 1 =>
                    d.pk = None /\ d.composite /\ d.skip
    /\ \A k \in DOMAIN tables :
         tables[k].skip <=>
           \/ tables[k].pk = None
           \/ tables[k].cols = <<>>
           \/ tables[k].pk \notin Range(tables[k].cols)

\* a line with exactly one pk token among several columns, parsed to a usable table
C2_Witness ==
  /\ pc = "parsed"
  /\ \E k \in DOMAIN ContentNos :
       LET l == TextLines[ContentNos[k]]
       IN  /\ IsTableLine(l)
           /\ Len(SelectSeq(TokensOf(l), HasPk)) = 1
           /\ Len(TokensOf(l)) >= 3
           /\ tables[k].pk = <<"b">>
           /\ ~tables[k].skip

\* a line with two pk tokens, parsed to a skipped composite table
C2_WitnessComposite ==
  /\ pc = "parsed"
  /\ \E k \in DOMAIN ContentNos :
       /\ IsTableLine(TextLines[ContentNos[k]])
       /\ Len(SelectSeq(TokensOf(TextLines[ContentNos[k]]), HasPk)) = 2
       /\ tables[k].composite /\ tables[k].skip

\* C3: a descriptor has at most 3 foreign keys; a line with more than 3 fk
\* annotations keeps the first 3 in declaration order and records the excess
\* message; a line with 3 or fewer keeps them all and records no such message.
C3_ForeignKeyCap ==
  pc = "parsed" =>
    /\ \A k \in DOMAIN tables : Len(tables[k].fks) <= 3
    /\ \A k \in DOMAIN ContentNos :
         LET l    == TextLines[ContentNos[k]]
             fkts == SelectSeq(TokensOf(l), HasFk)
             d    == tables[k]
             kept == IF Len(fkts) > 3 THEN 3 ELSE Len(fkts)
         IN  IsTableLine(l) =>
               /\ Len(d.fks) = kept
               /\ \A i \in 1..kept : d.fks[i].col = ColumnOf(fkts[i])
               /\ (Len(fkts) > 3) <=> (\E i \in DOMAIN d.errors : d.errors[i] = ExcessMsg)

\* a line with four fk annotations, the first three kept in order
C3_Witness ==
  /\ pc = "parsed"
  /\ \E k \in DOMAIN ContentNos :
       LET fkts == SelectSeq(TokensOf(TextLines[ContentNos[k]]), HasFk)
       IN  /\ IsTableLine(TextLines[ContentNos[k]])
           /\ Len(fkts) = 4
           /\ ColumnOf(fkts[1]) # ColumnOf(fkts[2])
           /\ ColumnOf(fkts[4]) # ColumnOf(fkts[3])
           /\ Len(tables[k].fks) = 3
           /\ \E i \in DOMAIN tables[k].errors : tables[k].errors[i] = ExcessMsg

\* C4 as stated: cols never holds the same name twice.
C4_NoDuplicateInCols ==
  pc = "parsed" =>
    \A k \in DOMAIN tables :
      \A i, j \in DOMAIN tables[k].cols :
        i # j => tables[k].cols[i] # tables[k].cols[j]

\* C4 as the code has it: cols holds the name of every parsed column token,
\* in declaration order, once per token, so a name on n tokens is n times in
\* cols; and errors hold n - 1 "duplicate column" entries for that name.
C4_DuplicatesKeptAndReported ==
  pc = "parsed" =>
    \A k \in DOMAIN ContentNos :
      LET l     == TextLines[ContentNos[k]]
          good  == SelectSeq(TokensOf(l), LAMBDA t : MatchColumnToken(t).ok)
          d     == tables[k]
      IN  IsTableLine(l) =>
            /\ d.cols = [i \in DOMAIN good |-> ColumnOf(good[i])]
            /\ \A c \in Range(d.cols) :
                 Count(d.errors, Err("duplicate column", <<c>>)) = Count(d.cols, c) - 1

\* a name on two tokens of one line: twice in cols, reported once
C4_Witness ==
  /\ pc = "parsed"
  /\ \E k \in DOMAIN tables :
       /\ Count(tables[k].cols, <<"a">>) = 2
       /\ Count(tables[k].errors, Err("duplicate column", <<<<"a">>>>)) = 1

---------------------------------------------------------------------------
(* Properties of the checkers, stated on the last invocation.              *)

\* what the last invocation gave to cur.execute, and what it logged
Issued == cursor

Logged ==
  IF call.fn = "ri"
  THEN SubSeq(RI_SQL_LOG_BUFFER, call.log0 + 1, Len(RI_SQL_LOG_BUFFER))
  ELSE SubSeq(SQL_LOG_BUFFER, call.log0 + 1, Len(SQL_LOG_BUFFER))

\* a triplet with its three fields
WellFormed(fk) ==
  /\ fk.col # None /\ fk.col # <<>>
  /\ fk.ref_table # None /\ fk.ref_table # <<>>
  /\ fk.ref_pk # None /\ fk.ref_pk # <<>>

\* C5 as stated: on an empty list the checker returns "Y" and gives no
\* statement at all to the query interface.
C5_EmptyListNoStatement ==
  (call.fn = "ri" /\ call.fks = <<>> /\ ~call.raised) =>
    call.result = "Y" /\ Issued = <<>>

\* C5 as the code has it: on an empty list the checker gives exactly one
\* statement to the query interface, SET search_path TO public; logs
\* nothing; and returns "Y" when that statement did not fail.
C5_EmptyListOnlySetsSearchPath ==
  (call.fn = "ri" /\ call.fks = <<>>) =>
    /\ Len(Issued) = 1
    /\ Issued[1].sql = <<"SET search_path TO public", ";">>
    /\ Logged = <<>>
    /\ ~call.raised => call.result = "Y"

\* the checker returned from a call with an empty list
C5_Witness ==
  call.fn = "ri" /\ call.fks = <<>> /\ pc = "returned" /\ call.result = "Y"

\* C6: the RI checker returns "Y" exactly when every triplet has its three
\* fields and an orphan count of 0, otherwise "N"; a malformed triplet does
\* not stop the check: the orphan query of every well-formed triplet is
\* issued, in order; the two supporting counts do not enter the verdict.
C6_RiVerdict ==
  (call.fn = "ri" /\ ~call.raised) =>
    LET good == SelectSeq([i \in DOMAIN call.fks |-> i],
                          LAMBDA i : WellFormed(call.fks[i]))
    IN  /\ call.result \in {"Y", "N"}
        /\ call.result = "Y" <=>
             \A i \in DOMAIN call.fks :
               WellFormed(call.fks[i]) /\ call.answers[i][1] = 0
        /\ Len(Issued) = 1 + 3 * Len(good)
        /\ \A k \in DOMAIN good :
             LET fk == call.fks[good[k]]
                 q  == Issued[3 * k - 1]
             IN  /\ q.sql = q_viol(call.table_name, fk.col, fk.ref_table, fk.ref_pk)
                 /\ q.row = <<call.answers[good[k]][1]>>

\* a malformed triplet first, then a well-formed one that is still queried
\* and has no orphan: "N"
C6_Witness ==
  /\ call.fn = "ri" /\ pc = "returned"
  /\ Len(call.fks) = 2
  /\ ~WellFormed(call.fks[1]) /\ WellFormed(call.fks[2])
  /\ call.answers[2][1] = 0
  /\ Len(Issued) = 4
  /\ call.result = "N"

\* three well-formed triplets without orphans, the supporting counts of one
\* of them differing: "Y"
C6_WitnessYes ==
  /\ call.fn = "ri" /\ pc = "returned"
  /\ Len(call.fks) = 3
  /\ call.result = "Y"
  /\ \E i \in 1..3 : call.answers[i][2] # call.answers[i][3]

\* the non-key columns of the last normalization call
NonKey == {c \in Range(call.cols) : c # call.pk}

C7_WitnessYesAfterProbe ==
  /\ call.fn = "norm" /\ pc = "returned"
  /\ call.result = "Y"
  /\ \E x \in NonKey : CountDistinct(call.rows, x) # CountRows(call.rows)
  /\ Len(Issued) > Cardinality(NonKey)

\* no non-key column: "Y" without any query
C7_WitnessNoNonKey ==
  /\ call.fn = "norm" /\ pc = "returned"
  /\ call.cols # <<>> /\ NonKey = {}
  /\ call.result = "Y" /\ Issued = <<>>

\* a statement as the log holds it: one ";" and a line end after its text
Terminated(sql) ==
  (IF sql # <<>> /\ sql[Len(sql)] = ";" THEN SubSeq(sql, 1, Len(sql) - 1) ELSE sql)
  \o <<";", "\n">>

OneSemicolon(entry) ==
  /\ Len(entry) >= 3
  /\ entry[Len(entry)] = "\n"
  /\ entry[Len(entry) - 1] = ";"
  /\ entry[Len(entry) - 2] # ";"

\* C9 as stated: what an invocation appends to its log buffer is exactly
\* what it issued, in order, each entry ending with one semicolon.
C9_LogIsWhatWasIssued ==
  (call.fn \in {"ri", "norm"} /\ ~call.raised) =>
    /\ Len(Logged) = Len(Issued)
    /\ \A k \in DOMAIN Logged :
         Logged[k] = Terminated(Issued[k].sql) /\ OneSemicolon(Logged[k])

\* C9 as the code has it: what an invocation appends to its log buffer is,
\* in order, every statement it issued that did not fail, except the RI
\* checker's first statement SET search_path TO public; which is never
\* logged; each entry ends with one semicolon and a line end.
C9_LogIsWhatWasIssuedButSet ==
  call.fn \in {"ri", "norm"} =>
    LET done == SelectSeq(Issued, LAMBDA q : ~q.failed)
        kept == IF call.fn = "ri" /\ done # <<>> THEN Tail(done) ELSE done
    IN  /\ call.fn = "ri" => Issued[1].sql = <<"SET search_path TO public", ";">>
        /\ Len(Logged) = Len(kept)
        /\ \A k \in DOMAIN Logged :
             Logged[k] = Terminated(kept[k].sql) /\ OneSemicolon(Logged[k])

\* an RI invocation that logged three statements after an earlier entry, and
\* issued four
C9_Witness ==
  /\ call.fn = "ri" /\ pc = "returned"
  /\ call.log0 = 1
  /\ Len(Logged) = 3 /\ Len(Issued) = 4

\* a normalization invocation that logged what it issued
C9_WitnessNorm ==
  /\ call.fn = "norm" /\ pc = "returned"
  /\ Len(Logged) = 4 /\ Len(Issued) = 4

\* the non-key columns in declared order
NonKeySeq == SelectSeq(call.cols, LAMBDA c : c # call.pk)

IsCountQuery(q) == \E x \in NonKey : q.sql = q_count(call.table_name, x)

\* the probes of X in the order of the other columns Y
ProbesOf(x) ==
  LET ys == SelectSeq(NonKeySeq, LAMBDA y : y # x)
  IN  [j \in DOMAIN ys |-> q_pair(call.table_name, x, ys[j])]

\* C10: the checker issues the count query of the non-key columns X in
\* declared order; after the count query of X come only probes (X, Y), in
\* the order of the columns Y, and none when COUNT(DISTINCT X) = COUNT(*);
\* a probe with equal counts is the last statement, and the result is "N".
C10_ScanOrderAndEarlyExit ==
  call.fn = "norm" =>
    LET at == SelectSeq([k \in DOMAIN Issued |-> k], LAMBDA k : IsCountQuery(Issued[k]))
        end(m) == IF m = Len(at) THEN Len(Issued) ELSE at[m + 1] - 1
    IN  /\ Len(at) <= Len(NonKeySeq)
        /\ Issued # <<>> => at # <<>> /\ at[1] = 1
        /\ \A m \in DOMAIN at :
             LET x      == NonKeySeq[m]
                 count  == Issued[at[m]]
                 probes == SubSeq(Issued, at[m] + 1, end(m))
             IN  /\ count.sql = q_count(call.table_name, x)
                 /\ Len(probes) <= Len(ProbesOf(x))
                 /\ \A j \in DOMAIN probes : probes[j].sql = ProbesOf(x)[j]
                 /\ (~count.failed /\ count.row[2] = count.row[1]) => probes = <<>>
        /\ \A k \in DOMAIN Issued :
             (~IsCountQuery(Issued[k]) /\ ~Issued[k].failed
                /\ Issued[k].row[1] = Issued[k].row[2])
               => k = Len(Issued) /\ call.result = "N"

\* the first column is distinct and not probed; the second repeats, its first
\* probe finds nothing, its second finds the dependency and ends the scan
C10_Witness ==
  /\ call.fn = "norm" /\ pc = "returned"
  /\ Len(NonKeySeq) = 3
  /\ Len(Issued) = 4
  /\ Issued[1].row[1] = Issued[1].row[2]
  /\ Issued[2].sql = q_count(call.table_name, NonKeySeq[2])
  /\ Issued[3].row[1] # Issued[3].row[2]
  /\ Issued[4].row[1] = Issued[4].row[2]
  /\ call.result = "N"

---------------------------------------------------------------------------
(* Properties of a run of __main__.                                        *)

\* the lines a run owes: per table that is not skipped, in table order, an
\* RI line if it has foreign keys, then a normalization line
RECURSIVE OwedLines(_)
OwedLines(ts) ==
  IF ts = <<>> THEN <<>>
  ELSE LET t == Head(ts)
       IN  (IF t.skip THEN <<>>
            ELSE (IF t.fks # <<>> THEN << <<t.table, "RI">> >> ELSE <<>>)
                 \o << <<t.table, "normalized">> >>)
           \o OwedLines(Tail(ts))

\* C8: no checker is invoked on a descriptor with skip = TRUE, and a run
\* that ends has printed, in table order, one normalization line per table
\* that is not skipped, preceded by one RI line exactly when the table has
\* foreign keys, whatever errors the descriptors carry.
C8_SkippedNeverChecked ==
  /\ call.fn \in {"ri", "norm"} =>
       /\ ~tables[call.idx].skip
       /\ call.table_name = tables[call.idx].table
  /\ pc = "done" =>
       /\ [i \in DOMAIN stdout |-> <<stdout[i].table, stdout[i].kind>>] = OwedLines(tables)
       /\ \A i \in DOMAIN stdout : stdout[i].verdict \in {"Y", "N"}

\* a finished run over three tables: a checked table carrying errors, a
\* skipped one, and a checked table without foreign keys
C8_Witness ==
  /\ pc = "done"
  /\ Len(tables) = 3
  /\ ~tables[1].skip /\ tables[1].fks # <<>> /\ tables[1].errors # <<>>
  /\ tables[2].skip
  /\ ~tables[3].skip /\ tables[3].fks = <<>>
  /\ Len(stdout) = 3

====
